---------------------------- MODULE Spec2Model ----------------------------
(***************************************************************************)
(* A model of rss.py: the 7date codec (tobase, frombase, to_datetime,      *)
(* to_string), the JSON-tree XML writer (make_new_xml_tree, add_elt,       *)
(* write_xml), the post workflow (add_new_post, check_file) and the feed   *)
(* (make_rss_file).                                                        *)
(*                                                                         *)
(* Python strings are sequences of one-character strings, so that slicing, *)
(* find, strip and ord are computed and not assumed.  A call that raises   *)
(* yields a record [kind |-> <exception class>, what |-> <raise site>].    *)
(***************************************************************************)
EXTENDS Integers, Sequences, FiniteSets, TLC

VARIABLES
    pc,                     \* position of the driver of the component under check
    n, b, numeral, back,    \* tobase / frombase: arguments and results
    time, do_use_digital_format, sevendate_str, parsed,
                            \* to_string / to_datetime: arguments and results
    nodes,                  \* the dicts of the tree under construction, by identity
    file,                   \* what write_xml has written to the file it opened
    ret,                    \* what the call of write_xml returned
    items_file,             \* rss_items.json of the post directory, if it exists
    root_file,              \* rss_root.json of the site directory, if it exists
    calls,                  \* how many times add_new_post has been called
    post_ret,               \* how the last add_new_post ended
    top_items_file          \* rss_items.json of the site directory, if it exists

baseVars == <<n, b, numeral, back>>
dateVars == <<time, do_use_digital_format, sevendate_str, parsed>>
xmlVars == <<nodes, file, ret>>
postVars == <<items_file, root_file, calls, post_ret, top_items_file>>
vars == <<pc, baseVars, dateVars, xmlVars, postVars>>

None == [kind |-> "None"]

\* An optional argument or dict key: absent, or present with a value.
Nothing == <<>>

Some(x) == <<x>>

Raise(exc, what) == [kind |-> exc, what |-> what]

IsRaise(r) ==
    r.kind \in {"ValueError", "AssertionError", "OverflowError", "TypeError",
                "KeyError", "FileNotFoundError"}

-----------------------------------------------------------------------------
(* Bounds of the checked input spaces.                                     *)

MaxN == 1000

\* to_string is applied to every day of the years MinYear..MaxYear (and of
\* EdgeYears); to_datetime to every string of at most MaxLen characters and to
\* every dotted or digital string whose day field has at most MaxDayLen.
MinYear == 2000

MaxYear == 2024

MaxLen == 4

MaxDayLen == 4

\* The post directory holds at most MaxFeedPosts posts and the site directory
\* at most MaxTopPosts when the feed is made.
MaxFeedPosts == 10

MaxTopPosts == 1

\* The trees built have at most MaxNodes dicts, the root included.
MaxNodes == 4

\* add_new_post is called at most MaxPosts times.
MaxPosts == 3

-----------------------------------------------------------------------------
(* Python built-ins used by the codec.                                     *)

DigitChars == <<"0", "1", "2", "3", "4", "5", "6", "7", "8", "9">>

\* ord(char), for the characters the checked inputs are made of.
ord(char) ==
    CASE char = " " -> 32
      [] char = "+" -> 43
      [] char = "-" -> 45
      [] char = "." -> 46
      [] char = "/" -> 47
      [] char = "0" -> 48
      [] char = "1" -> 49
      [] char = "2" -> 50
      [] char = "3" -> 51
      [] char = "4" -> 52
      [] char = "5" -> 53
      [] char = "6" -> 54
      [] char = "7" -> 55
      [] char = "8" -> 56
      [] char = "9" -> 57
      [] char = ":" -> 58
      [] char = "_" -> 95
      [] char = "x" -> 120

\* str(i) of a Python int: its decimal numeral, with '-' for a negative one.
RECURSIVE str_digits(_)
str_digits(i) ==
    IF i < 10 THEN <<DigitChars[i + 1]>>
    ELSE Append(str_digits(i \div 10), DigitChars[(i % 10) + 1])

str(i) == IF i < 0 THEN <<"-">> \o str_digits(-i) ELSE str_digits(i)

\* reversed(seq)
reversed(seq) == [i \in 1..Len(seq) |-> seq[Len(seq) + 1 - i]]

\* ''.join(strs)
RECURSIVE join(_)
join(strs) == IF strs = <<>> THEN <<>> ELSE Head(strs) \o join(Tail(strs))

-----------------------------------------------------------------------------
(* tobase and frombase.                                                    *)

\* The while loop of tobase: digits collected least significant first.
RECURSIVE tobase_loop(_, _, _)
tobase_loop(n0, b0, digits) ==
    IF n0 > 0 THEN tobase_loop(n0 \div b0, b0, Append(digits, n0 % b0))
    ELSE digits

\* tobase joining the digits in the order the loop found them.
tobase_unreversed(n0, b0) ==
    IF ~(n0 >= 0 /\ b0 > 1) THEN Raise("AssertionError", "tobase")
    ELSE LET looped == tobase_loop(n0, b0, <<>>)
             digits == IF looped # <<>> THEN looped ELSE <<0>>
         IN  [kind |-> "str",
              val  |-> join([i \in 1..Len(digits) |-> str(digits[i])])]

tobase(n0, b0) ==
    IF ~(n0 >= 0 /\ b0 > 1) THEN Raise("AssertionError", "tobase")
    ELSE LET looped == tobase_loop(n0, b0, <<>>)
             digits == IF looped # <<>> THEN looped ELSE <<0>>
             rev    == reversed(digits)
         IN  [kind |-> "str",
              val  |-> join([i \in 1..Len(rev) |-> str(rev[i])])]

\* frombase's loop letting the digit b itself through (d <= b for d < b).
RECURSIVE frombase_loop_le(_, _, _, _)
frombase_loop_le(s, b0, i, n0) ==
    IF i > Len(s) THEN [kind |-> "int", val |-> n0]
    ELSE LET n1 == n0 * b0
             d  == ord(s[i]) - ord("0")
         IN  IF ~(0 <= d /\ d <= b0) THEN Raise("ValueError", "frombase")
             ELSE frombase_loop_le(s, b0, i + 1, n1 + d)

\* The for loop of frombase over s[i..]: n0 is the value accumulated so far.
RECURSIVE frombase_loop(_, _, _, _)
frombase_loop(s, b0, i, n0) ==
    IF i > Len(s) THEN [kind |-> "int", val |-> n0]
    ELSE LET n1 == n0 * b0
             d  == ord(s[i]) - ord("0")
         IN  IF ~(0 <= d /\ d < b0) THEN Raise("ValueError", "frombase")
             ELSE frombase_loop(s, b0, i + 1, n1 + d)

frombase(s, b0) ==
    IF ~(1 < b0 /\ b0 <= 10) THEN Raise("AssertionError", "frombase")
    ELSE frombase_loop(s, b0, 1, 0)

-----------------------------------------------------------------------------
(* Python str methods and int(), as to_datetime uses them.                 *)

\* s[lo:hi] with Python's clamping of non-negative bounds (0-based, half-open).
slice(s, lo, hi) ==
    LET h == IF hi > Len(s) THEN Len(s) ELSE hi
    IN  IF lo >= h THEN <<>> ELSE SubSeq(s, lo + 1, h)

isspace(char) == char = " "

RECURSIVE lstrip(_)
lstrip(s) == IF s # <<>> /\ isspace(Head(s)) THEN lstrip(Tail(s)) ELSE s

RECURSIVE rstrip(_)
rstrip(s) ==
    IF s # <<>> /\ isspace(s[Len(s)]) THEN rstrip(SubSeq(s, 1, Len(s) - 1)) ELSE s

\* s.strip()
strip(s) == rstrip(lstrip(s))

\* s.find(char): the 0-based index of the first occurrence, or -1.
find(s, char) ==
    LET hits == {i \in 1..Len(s) : s[i] = char}
    IN  IF hits = {} THEN -1
        ELSE (CHOOSE i \in hits : \A j \in hits : i <= j) - 1

\* char.isdigit(), of an ASCII character.
isdigit(char) == char \in {DigitChars[k] : k \in 1..10}

\* The value of a decimal literal whose digits may be separated by single
\* underscores; called on a literal that int() has accepted.
RECURSIVE int_value(_, _)
int_value(s, acc) ==
    IF s = <<>> THEN acc
    ELSE IF Head(s) = "_" THEN int_value(Tail(s), acc)
    ELSE int_value(Tail(s), acc * 10 + (ord(Head(s)) - ord("0")))

\* int(s), base 10: surrounding whitespace is ignored, one sign is allowed, and
\* the digits may be grouped by single underscores.
int(s) ==
    LET t      == strip(s)
        signed == t # <<>> /\ Head(t) \in {"+", "-"}
        body   == IF signed THEN Tail(t) ELSE t
        wellformed ==
            /\ body # <<>>
            /\ \A i \in 1..Len(body) : isdigit(body[i]) \/ body[i] = "_"
            /\ isdigit(body[1])
            /\ isdigit(body[Len(body)])
            /\ \A i \in 1..(Len(body) - 1) : ~(body[i] = "_" /\ body[i + 1] = "_")
        val == int_value(body, 0)
    IN  IF ~wellformed THEN Raise("ValueError", "int")
        ELSE [kind |-> "int",
              val  |-> IF signed /\ Head(t) = "-" THEN -val ELSE val]

\* day.rjust to width 4 with '0': the format specifier 0>4s.
RECURSIVE pad_left(_, _, _)
pad_left(s, fill, width) ==
    IF Len(s) >= width THEN s ELSE pad_left(<<fill>> \o s, fill, width)

-----------------------------------------------------------------------------
(* datetime: a value is the calendar day [year, month, day] at midnight.   *)
(* The proleptic Gregorian arithmetic is the datetime module's.            *)

is_leap(year) == year % 4 = 0 /\ (year % 100 # 0 \/ year % 400 = 0)

days_in_month(year, month) ==
    IF month = 2 /\ is_leap(year) THEN 29
    ELSE <<31, 28, 31, 30, 31, 30, 31, 31, 30, 31, 30, 31>>[month]

days_before_month(year, month) ==
    <<0, 31, 59, 90, 120, 151, 181, 212, 243, 273, 304, 334>>[month]
        + (IF month > 2 /\ is_leap(year) THEN 1 ELSE 0)

days_before_year(year) ==
    LET y == year - 1
    IN  y * 365 + (y \div 4) - (y \div 100) + (y \div 400)

ymd2ord(year, month, day) ==
    days_before_year(year) + days_before_month(year, month) + day

ord2ymd(ordinal) ==
    LET n0   == ordinal - 1
        n400 == n0 \div 146097
        r400 == n0 % 146097
        n100 == r400 \div 36524
        r100 == r400 % 36524
        n4   == r100 \div 1461
        r4   == r100 % 1461
        n1   == r4 \div 365
        r1   == r4 % 365
        year == n400 * 400 + 1 + n100 * 100 + n4 * 4 + n1
    IN  IF n1 = 4 \/ n100 = 4
        THEN [year |-> year - 1, month |-> 12, day |-> 31]
        ELSE LET leapyear == n1 = 3 /\ (n4 # 24 \/ n100 = 3)
                 extra(m) == IF m > 2 /\ leapyear THEN 1 ELSE 0
                 before(m) ==
                     <<0, 31, 59, 90, 120, 151, 181, 212, 243, 273, 304, 334>>[m]
                         + extra(m)
                 guess == (r1 + 50) \div 32
                 month == IF before(guess) > r1 THEN guess - 1 ELSE guess
             IN  [year |-> year, month |-> month, day |-> r1 - before(month) + 1]

\* datetime(year, 1, 1): midnight of the day.
datetime_jan1(year) ==
    IF ~(1 <= year /\ year <= 9999) THEN Raise("ValueError", "datetime")
    ELSE [kind |-> "datetime", year |-> year, month |-> 1, day |-> 1,
          hour |-> 0, minute |-> 0, second |-> 0]

\* The datetime of the date ymd at the time of day of dt.
at_time_of(ymd, dt) ==
    [kind |-> "datetime", year |-> ymd.year, month |-> ymd.month, day |-> ymd.day,
     hour |-> dt.hour, minute |-> dt.minute, second |-> dt.second]

\* dt + timedelta(days=days)
add_days(dt, days) ==
    IF days > 999999999 \/ days < -999999999
    THEN Raise("OverflowError", "timedelta")
    ELSE LET ordinal == ymd2ord(dt.year, dt.month, dt.day) + days
         IN  IF ~(0 < ordinal /\ ordinal <= 3652059)
             THEN Raise("OverflowError", "date")
             ELSE at_time_of(ord2ymd(ordinal), dt)

\* time.timetuple().tm_yday
tm_yday(dt) == days_before_month(dt.year, dt.month) + dt.day

-----------------------------------------------------------------------------
(* to_datetime and to_string.                                              *)

\* The day field cut from index 4, the separator included.
day_str_from4(arg) ==
    LET s   == strip(arg)
        dot == find(s, ".")
    IN  IF dot = -1 THEN slice(s, 4, Len(s)) ELSE slice(s, 0, dot)

\* The day field and the year field to_datetime cuts out of its argument.
day_str(arg) ==
    LET s   == strip(arg)
        dot == find(s, ".")
    IN  IF dot = -1 THEN slice(s, 5, Len(s)) ELSE slice(s, 0, dot)

year_str(arg) ==
    LET s   == strip(arg)
        dot == find(s, ".")
    IN  IF dot = -1 THEN slice(s, 0, 4) ELSE slice(s, dot + 1, Len(s))

to_datetime(arg) ==
    LET day_num == frombase(day_str(arg), 7)
    IN  IF IsRaise(day_num) THEN day_num
        ELSE LET year_num == int(year_str(arg))
             IN  IF IsRaise(year_num) THEN year_num
                 ELSE LET jan1 == datetime_jan1(year_num.val)
                      IN  IF IsRaise(jan1) THEN jan1
                          ELSE add_days(jan1, day_num.val)

\* to_string writing tm_yday itself, the 1-indexed day of the year.
to_string_yday(time0, digital, now0) ==
    LET t    == IF time0 = None THEN now0 ELSE time0
        year == str(t.year)
        day  == tobase(tm_yday(t), 7).val
    IN  IF digital THEN year \o <<"-">> \o pad_left(day, "0", 4)
        ELSE day \o <<".">> \o year

\* to_string padding the day to width 3.
to_string_width3(time0, digital, now0) ==
    LET t    == IF time0 = None THEN now0 ELSE time0
        year == str(t.year)
        day  == tobase(tm_yday(t) - 1, 7).val
    IN  IF digital THEN year \o <<"-">> \o pad_left(day, "0", 3)
        ELSE day \o <<".">> \o year

\* to_string(time, do_use_digital_format); now0 is what datetime.now() reads
\* when time is None.
to_string(time0, digital, now0) ==
    LET t    == IF time0 = None THEN now0 ELSE time0
        year == str(t.year)
        day  == tobase(tm_yday(t) - 1, 7).val
    IN  IF digital THEN year \o <<"-">> \o pad_left(day, "0", 4)
        ELSE day \o <<".">> \o year

-----------------------------------------------------------------------------
(* The tree and its writer.  A dict of the tree is nodes[id]:              *)
(*   tag; has_text and text (the key "text"); has_attribs and attribs (the *)
(*   key "attribs", the dict's items in insertion order); value (the list  *)
(*   under the key "value", as the ids of the dicts appended to it).       *)
(* The list of nodes[id] is what make_new_xml_tree and add_elt return, so  *)
(* a parent handle is the id of the dict owning the list.  Written text is *)
(* a sequence whose elements are single characters, or a whole tag, text,  *)
(* attribute name or attribute value, which write_xml copies unread.       *)

\* The dict make_new_xml_tree and add_elt build: the keys "text" and "attribs"
\* are set only for a truthy argument.
new_obj(tag, text, attribs) ==
    LET truthy_text    == text # Nothing /\ text[1] # ""
        truthy_attribs == attribs # Nothing /\ attribs[1] # <<>>
    IN  [tag         |-> tag,
         value       |-> <<>>,
         has_text    |-> truthy_text,
         text        |-> IF truthy_text THEN text[1] ELSE "",
         has_attribs |-> truthy_attribs,
         attribs     |-> IF truthy_attribs THEN attribs[1] ELSE <<>>]

\* make_new_xml_tree(root_tag, attribs): the heap holding the new tree alone.
make_new_xml_tree(root_tag, attribs) == <<new_obj(root_tag, Nothing, attribs)>>

\* add_elt(parent, tag, text, attribs) on heap h: the new dict is appended to
\* the list parent and its own list, of id Len(h) + 1, is returned.
add_elt(h, parent, tag, text, attribs) ==
    Append([h EXCEPT ![parent].value = Append(@, Len(h) + 1)],
           new_obj(tag, text, attribs))

\* ' '.join(strs)
RECURSIVE join_space(_)
join_space(strs) ==
    IF strs = <<>> THEN <<>>
    ELSE IF Len(strs) = 1 THEN strs[1]
    ELSE strs[1] \o <<" ">> \o join_space(Tail(strs))

\* The opening tag write_xml builds for a dict.
tag_str(obj) ==
    IF obj.has_attribs
    THEN LET attrib_items == obj.attribs
             attrib_str ==
                 join_space([i \in 1..Len(attrib_items) |->
                     <<attrib_items[i][1], "=", "\"", attrib_items[i][2], "\"">>])
         IN  <<"<", obj.tag, " ">> \o attrib_str \o <<">">>
    ELSE <<"<", obj.tag, ">">>

\* The prefix with only one space added per level.
child_prefix_one(prefix) == prefix \o <<" ">>

\* The prefix write_xml hands to the items of a list.
child_prefix(prefix) == prefix \o <<" ", " ">>

\* write_xml(xml_as_json, f, prefix) on heap h, for the recursive calls and the
\* root call alike: out is what the call writes to f, post its return value
\* do_need_post_indent.  xml_as_json is [type |-> "dict", id], [type |-> "str",
\* s] or [type |-> "list", ids]; prefix is Nothing in the root call.
RECURSIVE write_xml(_, _, _)
write_xml(h, xml_as_json, prefix_arg) ==
    LET header == IF prefix_arg = Nothing
                  THEN <<"<?xml version='1.0' encoding='utf-8'?>", "\n">>
                  ELSE <<>>
        prefix == IF prefix_arg = Nothing THEN <<>> ELSE prefix_arg[1]
    IN  CASE xml_as_json.type = "dict" ->
                 LET obj   == h[xml_as_json.id]
                     inner == IF obj.has_text
                              THEN write_xml(h, [type |-> "str", s |-> obj.text],
                                             Some(prefix))
                              ELSE write_xml(h, [type |-> "list", ids |-> obj.value],
                                             Some(prefix))
                 IN  [out  |-> header \o prefix \o tag_str(obj) \o inner.out
                                \o (IF inner.post THEN prefix ELSE <<>>)
                                \o <<"</", obj.tag, ">", "\n">>,
                      post |-> FALSE]
          [] xml_as_json.type = "str" ->
                 [out |-> header \o <<xml_as_json.s>>, post |-> FALSE]
          [] xml_as_json.type = "list" ->
                 LET ids == xml_as_json.ids
                     RECURSIVE items(_)
                     items(i) ==
                         IF i > Len(ids) THEN <<>>
                         ELSE write_xml(h, [type |-> "dict", id |-> ids[i]],
                                        Some(child_prefix(prefix))).out
                                  \o items(i + 1)
                 IN  [out  |-> header
                                \o (IF Len(ids) > 0 THEN <<"\n">> ELSE <<>>)
                                \o items(1),
                      post |-> Len(ids) > 0]

-----------------------------------------------------------------------------
(* The post workflow.  A JSON object is a function from its keys to its    *)
(* values, a value a string (a sequence, as above).  A file is Nothing or  *)
(* Some(content): items content is [parses, data] with data the list of    *)
(* items json.load yields when the text parses; root content is the dict.  *)
(* A directory is the sequence of its path components.                     *)

ITEMS_FILENAME == "rss_items.json"

ROOT_FILENAME == "rss_root.json"

DEFAULT_ITEM_VALUES ==
    [title       |-> <<"TITLE">>,
     link        |-> <<"URL">>,
     description |-> <<"DESCRIPTION">>,
     author      |-> <<"AUTHOR">>,
     pubDate     |-> <<"DATE">>]

DEFAULT_ROOT_VALUES ==
    [title       |-> <<"TITLE">>,
     link        |-> <<"LINK">>,
     description |-> <<"DESCRIPTION">>]

\* The directory the root file is made in, and the one posts are added in.
SiteDir == <<"site">>

PostDir == <<"site", "post">>

\* str(i).zfill(width)
zfill(i, width) == pad_left(str(i), "0", width)

\* dt.astimezone() of a naive datetime where the local zone is UTC: the same
\* wall-clock reading, made aware.  The conversion looks up the local time a
\* day before dt, which no year holds for a dt on 1 January of year 1.
astimezone(dt) ==
    IF ymd2ord(dt.year, dt.month, dt.day) = 1 THEN Raise("ValueError", "astimezone")
    ELSE dt

\* utils.format_datetime(dt) of an aware datetime of the UTC zone.
format_datetime(dt) ==
    LET weekday == (ymd2ord(dt.year, dt.month, dt.day) + 6) % 7
    IN  <<(<<"Mon", "Tue", "Wed", "Thu", "Fri", "Sat", "Sun">>)[weekday + 1],
          ",", " ">>
            \o zfill(dt.day, 2)
            \o <<" ",
                 (<<"Jan", "Feb", "Mar", "Apr", "May", "Jun",
                    "Jul", "Aug", "Sep", "Oct", "Nov", "Dec">>)[dt.month],
                 " ">>
            \o zfill(dt.year, 4)
            \o <<" ">> \o zfill(dt.hour, 2)
            \o <<":">> \o zfill(dt.minute, 2)
            \o <<":">> \o zfill(dt.second, 2)
            \o <<" ", "+", "0", "0", "0", "0">>

\* utils.format_datetime(dt.astimezone()): the string, or what astimezone
\* raised.
format_local(dt) ==
    IF IsRaise(astimezone(dt)) THEN astimezone(dt)
    ELSE [kind |-> "str", val |-> format_datetime(astimezone(dt))]

\* get_date_str(time); now0 is what datetime.now() reads.
get_date_str(time0, now0) ==
    format_local(IF time0 = None THEN now0 ELSE time0)

\* The rest of make_new_post_obj once get_date_str has returned date_str.
new_post_obj_dated(date_str) ==
    IF IsRaise(date_str) THEN date_str
    ELSE [kind |-> "dict",
          obj  |-> [DEFAULT_ITEM_VALUES EXCEPT !.pubDate = date_str.val]]

\* The rest of make_new_post_obj once time has its value.
new_post_obj_at(time0, now0) ==
    IF IsRaise(time0) THEN time0
    ELSE new_post_obj_dated(get_date_str(time0, now0))

\* make_new_post_obj(sevendate_str): the argument is Nothing for None.
make_new_post_obj(sevendate_arg, now0) ==
    new_post_obj_at(IF sevendate_arg # Nothing /\ sevendate_arg[1] # <<>>
                    THEN to_datetime(sevendate_arg[1])
                    ELSE None,
                    now0)

\* find_root_json_filepath() from directory dir: the directory of the nearest
\* root file at or above dir, or ERROR.
RECURSIVE find_root_json_filepath(_, _)
find_root_json_filepath(dir, rootf) ==
    IF dir = SiteDir /\ rootf # Nothing THEN [kind |-> "Path", dir |-> dir]
    ELSE IF dir = <<>> THEN [kind |-> "ERROR"]
    ELSE find_root_json_filepath(SubSeq(dir, 1, Len(dir) - 1), rootf)

\* find_root_data(): [kind |-> "ERROR"] stands for the pair ERROR, ERROR.
find_root_data(cwd, rootf) ==
    LET root_json_filepath == find_root_json_filepath(cwd, rootf)
    IN  IF root_json_filepath.kind = "ERROR" THEN [kind |-> "ERROR"]
        ELSE LET root_data == rootf[1]
             IN  [kind      |-> "found",
                  root_path |-> root_json_filepath.dir \o root_data.rootDir,
                  root_data |-> root_data]

\* '/'.join(parts)
RECURSIVE join_slash(_)
join_slash(parts) ==
    IF parts = <<>> THEN <<>>
    ELSE IF Len(parts) = 1 THEN <<parts[1]>>
    ELSE <<parts[1], "/">> \o join_slash(Tail(parts))

\* The rest of guess_path once find_root_data() has returned found.
guess_path_from(filename, cwd, found) ==
    IF found.kind = "ERROR" THEN [kind |-> "str", val |-> filename]
    ELSE LET basepath == IF filename = <<>> THEN cwd ELSE cwd \o filename
             root     == found.root_path
         IN  IF ~(Len(root) <= Len(basepath)
                      /\ SubSeq(basepath, 1, Len(root)) = root)
             THEN Raise("ValueError", "relative_to")
             ELSE [kind |-> "str",
                   val  |-> <<"http://">> \o
                       join_slash(SubSeq(basepath, Len(root) + 1, Len(basepath)))]

\* guess_path(filename) in directory cwd: a string, or the ValueError of
\* relative_to when cwd is not below the publication root.
guess_path(filename, cwd, rootf) ==
    guess_path_from(filename, cwd, find_root_data(cwd, rootf))

\* check_file(filepath, do_print): the list of error messages, for the file of
\* the given base name and content.
check_file(basename, content) ==
    IF basename = ITEMS_FILENAME THEN
        IF ~content.parses
        THEN <<[msg |-> "Unable to parse the JSON in file", i |-> 0, field |-> ""]>>
        ELSE LET required_fields ==
                     <<"title", "link", "description", "author", "pubDate">>
                 data == content.data
                 of_field(i, field) ==
                     IF field \notin DOMAIN data[i]
                     THEN <<[msg |-> "Missing field in item", i |-> i - 1,
                             field |-> field]>>
                     ELSE IF data[i][field] = DEFAULT_ITEM_VALUES[field]
                     THEN <<[msg |-> "Default value in item", i |-> i - 1,
                             field |-> field]>>
                     ELSE <<>>
                 RECURSIVE of_item(_, _)
                 of_item(i, k) ==
                     IF k > Len(required_fields) THEN <<>>
                     ELSE of_field(i, required_fields[k]) \o of_item(i, k + 1)
                 RECURSIVE of_data(_)
                 of_data(i) ==
                     IF i > Len(data) THEN <<>> ELSE of_item(i, 1) \o of_data(i + 1)
             IN  of_data(1)
    ELSE IF basename = ROOT_FILENAME THEN
        LET required_fields ==
                <<"title", "link", "description", "rootDir", "rssFilename">>
            defaults == DEFAULT_ROOT_VALUES
            of_field(field) ==
                IF field \notin DOMAIN content
                THEN <<[msg |-> "Missing field", i |-> 0, field |-> field]>>
                ELSE IF field \in DOMAIN defaults /\ content[field] = defaults[field]
                THEN <<[msg |-> "Default value found for", i |-> 0, field |-> field]>>
                ELSE <<>>
            RECURSIVE of_root(_)
            of_root(k) ==
                IF k > Len(required_fields) THEN <<>>
                ELSE of_field(required_fields[k]) \o of_root(k + 1)
        IN  of_root(1)
    ELSE <<[msg |-> "Invalid rss filename", i |-> 0, field |-> basename]>>

\* The rest of add_new_post once data is loaded: made is what
\* make_new_post_obj returned, guessed_path what guess_path returned and found
\* what find_root_data returned, each call made only if the one before it
\* did not raise.
add_new_post_write(itemsf, data, made, guessed_path, found) ==
    IF IsRaise(made) THEN [ret |-> made, items |-> itemsf]
    ELSE IF IsRaise(guessed_path) THEN [ret |-> guessed_path, items |-> itemsf]
    \* root_data is ERROR, a truthy int: 'defaultAuthor' in root_data raises.
    ELSE IF found.kind = "ERROR"
    THEN [ret |-> Raise("TypeError", "add_new_post"), items |-> itemsf]
    ELSE LET root_data == found.root_data
             obj1 == IF DOMAIN root_data # {} /\ "defaultAuthor" \in DOMAIN root_data
                     THEN [made.obj EXCEPT !.author = root_data.defaultAuthor]
                     ELSE made.obj
             obj2 == IF guessed_path.val # <<>>
                     THEN [obj1 EXCEPT !.link = guessed_path.val]
                     ELSE obj1
         IN  [ret   |-> None,
              items |-> Some([parses |-> TRUE, data |-> data \o <<obj2>>])]

\* The list add_new_post starts from: the items of the file when it exists and
\* check_file has no message for it, and [] otherwise.
add_new_post_data(itemsf) ==
    IF itemsf = Nothing THEN <<>>
    ELSE IF Len(check_file(ITEMS_FILENAME, itemsf[1])) > 0 THEN <<>>
    ELSE itemsf[1].data

\* add_new_post(filename, sevendate_str) run in directory cwd: ret is None or
\* what it raised, items the items file it leaves.
add_new_post(filename, sevendate_arg, now0, cwd, itemsf, rootf) ==
    add_new_post_write(itemsf,
                       add_new_post_data(itemsf),
                       make_new_post_obj(sevendate_arg, now0),
                       guess_path(filename, cwd, rootf),
                       find_root_data(cwd, rootf))

\* make_root_json_file() run in the site directory: the root file it leaves.
make_root_json_file(rootf) ==
    IF rootf # Nothing THEN rootf
    ELSE Some([title       |-> DEFAULT_ROOT_VALUES.title,
               link        |-> DEFAULT_ROOT_VALUES.link,
               description |-> DEFAULT_ROOT_VALUES.description,
               rootDir     |-> <<>>,
               rssFilename |-> <<"feed">>])

\* check_for_sevendate_str(argv) from index i on: Nothing for None.  A command
\* line is the list of its words, each a string; the flag -7 is one element.
RECURSIVE check_for_sevendate_str_from(_, _)
check_for_sevendate_str_from(argv, i) ==
    IF i > Len(argv) - 1 THEN Nothing
    ELSE IF argv[i] = <<"-7">> THEN Some(argv[i + 1])
    ELSE check_for_sevendate_str_from(argv, i + 1)

check_for_sevendate_str(argv) == check_for_sevendate_str_from(argv, 1)

\* The post action of the main block for the command line argv (argv[1] the
\* script, argv[2] the action), run in directory cwd.
main_post(argv, now0, cwd, itemsf, rootf) ==
    add_new_post(IF Len(argv) > 2 THEN argv[3] ELSE <<>>,
                 check_for_sevendate_str(argv), now0, cwd, itemsf, rootf)

\* 'CDATA' in desc: the elements of a description that hold these letters.
has_cdata(desc) == \E i \in 1..Len(desc) : desc[i] \in {"CDATA", "<![CDATA["}

\* The loop of add_img.py over the items from the i-th on: the list, or the
\* KeyError of an item without a description.
RECURSIVE add_img_items(_, _)
add_img_items(data, i) ==
    IF i > Len(data) THEN [kind |-> "list", val |-> data]
    ELSE IF "description" \notin DOMAIN data[i] THEN Raise("KeyError", "add_img")
    ELSE IF has_cdata(data[i].description) THEN add_img_items(data, i + 1)
    ELSE add_img_items(
             [data EXCEPT ![i].description =
                 <<"<![CDATA[">> \o @ \o <<" <img src=\"IMG_SRC\">]]>">>],
             i + 1)

\* add_img.py run on the items file: ret is None or what was raised, items
\* the file it leaves.
add_img(itemsf) ==
    IF itemsf = Nothing
    THEN [ret |-> Raise("FileNotFoundError", "add_img"), items |-> itemsf]
    ELSE IF ~itemsf[1].parses
    THEN [ret |-> Raise("ValueError", "add_img"), items |-> itemsf]
    ELSE IF IsRaise(add_img_items(itemsf[1].data, 1))
    THEN [ret |-> add_img_items(itemsf[1].data, 1), items |-> itemsf]
    ELSE [ret   |-> None,
          items |-> Some([parses |-> TRUE,
                          data   |-> add_img_items(itemsf[1].data, 1).val])]

-----------------------------------------------------------------------------
(* The feed: make_rss_file.  A pubDate is read back by                     *)
(* utils.parsedate_to_datetime, modelled for the date-time form that       *)
(* utils.format_datetime writes: day name and comma, day, month name,      *)
(* year, hh:mm:ss and a numeric zone.  Day and month names are single      *)
(* elements of the string, everything else single characters.              *)

\* data.split(): the maximal runs of non-blank elements of s, from index i on,
\* word being the run read so far.
RECURSIVE split_from(_, _, _)
split_from(s, i, word) ==
    IF i > Len(s) THEN (IF word = <<>> THEN <<>> ELSE <<word>>)
    ELSE IF isspace(s[i])
    THEN (IF word = <<>> THEN <<>> ELSE <<word>>) \o split_from(s, i + 1, <<>>)
    ELSE split_from(s, i + 1, Append(word, s[i]))

split(s) == split_from(s, 1, <<>>)

\* s.split(sep): the pieces between the separators, empty ones included.
RECURSIVE split_sep_from(_, _, _, _)
split_sep_from(s, sep, i, piece) ==
    IF i > Len(s) THEN <<piece>>
    ELSE IF s[i] = sep THEN <<piece>> \o split_sep_from(s, sep, i + 1, <<>>)
    ELSE split_sep_from(s, sep, i + 1, Append(piece, s[i]))

split_sep(s, sep) == split_sep_from(s, sep, 1, <<>>)

\* The day names, month names and zone names _parsedate_tz knows, each the
\* single element a string holds for it.
daynames == {"Mon", "Tue", "Wed", "Thu", "Fri", "Sat", "Sun"}

monthnames ==
    <<"Jan", "Feb", "Mar", "Apr", "May", "Jun",
      "Jul", "Aug", "Sep", "Oct", "Nov", "Dec">>

timezones ==
    [UT  |-> 0,    UTC |-> 0,    GMT |-> 0,    Z   |-> 0,
     AST |-> -400, ADT |-> -300, EST |-> -500, EDT |-> -400,
     CST |-> -600, CDT |-> -500, MST |-> -700, MDT |-> -600,
     PST |-> -800, PDT |-> -700]

\* _monthnames.index(mm) + 1 for a month name, 0 when mm is not one.
month_number(mm) ==
    LET hits == {i \in 1..12 : <<monthnames[i]>> = mm}
    IN  IF hits = {} THEN 0 ELSE CHOOSE i \in hits : TRUE

\* s.rfind(char): the 0-based index of the last occurrence, or -1.
rfind(s, char) ==
    LET hits == {i \in 1..Len(s) : s[i] = char}
    IN  IF hits = {} THEN -1
        ELSE (CHOOSE i \in hits : \A j \in hits : i >= j) - 1

\* s without its last character when that is a comma.
drop_comma(s) ==
    IF s # <<>> /\ s[Len(s)] = "," THEN SubSeq(s, 1, Len(s) - 1) ELSE s

\* Converts a zone written as hhmm into seconds: -0500 -> -18000.
tzoffset_of(tzoffset) ==
    IF tzoffset < 0
    THEN -(((-tzoffset) \div 100) * 3600 + ((-tzoffset) % 100) * 60)
    ELSE (tzoffset \div 100) * 3600 + (tzoffset % 100) * 60

\* The year of _parsedate_tz: a yy below 100 is taken as a two-digit year,
\* of 1969..1999 when above 68 and of 2000..2068 otherwise.
four_digit_year(yy) ==
    IF yy < 100 THEN (IF yy > 68 THEN yy + 1900 ELSE yy + 2000) ELSE yy

\* datetime(year, mm, dd, thh, tmm, tss), with the zone when there is one.
parsedate_built(year, mm, dd, thh, tmm, tss, aware, utcoffset) ==
    \* datetime.timezone refuses an offset of a day or more.
    IF aware /\ ~(-86400 < utcoffset /\ utcoffset < 86400)
    THEN Raise("ValueError", "timezone")
    \* datetime(...) refuses a field out of range.
    ELSE IF ~(/\ year \in 1..9999
              /\ dd \in 1..days_in_month(year, mm)
              /\ thh \in 0..23
              /\ tmm \in 0..59
              /\ tss \in 0..59)
    THEN Raise("ValueError", "datetime")
    ELSE [kind      |-> "datetime",
          year      |-> year,
          month     |-> mm,
          day       |-> dd,
          hour      |-> thh,
          minute    |-> tmm,
          second    |-> tss,
          aware     |-> aware,
          utcoffset |-> utcoffset]

\* The zone of _parsedate_tz for the string tz: whether there is one, and its
\* offset in hhmm.  A zone name has its offset; a zone that is not a number, or
\* is -0000, is no zone.
parsedate_zone(tz, tz_int) ==
    IF Len(tz) = 1 /\ tz[1] \in DOMAIN timezones
    THEN [aware |-> TRUE, tzoffset |-> timezones[tz[1]]]
    ELSE IF IsRaise(tz_int) THEN [aware |-> FALSE, tzoffset |-> 0]
    ELSE IF tz_int.val = 0 /\ Head(tz) = "-" THEN [aware |-> FALSE, tzoffset |-> 0]
    ELSE [aware |-> TRUE, tzoffset |-> tz_int.val]

\* The datetime built from the five fields once they are converted.
parsedate_datetime(yy, mm, dd, thh, tmm, tss, zone) ==
    IF IsRaise(yy) \/ IsRaise(dd) \/ IsRaise(thh) \/ IsRaise(tmm) \/ IsRaise(tss)
    THEN Raise("ValueError", "parsedate_to_datetime")
    ELSE parsedate_built(four_digit_year(yy.val), mm, dd.val, thh.val, tmm.val,
                         tss.val, zone.aware, tzoffset_of(zone.tzoffset))

\* The rest of _parsedate_tz once tm is split into hours, minutes and, when
\* they are given, seconds.
parsedate_time(f, tm) ==
    IF Len(tm) \notin {2, 3} THEN Raise("ValueError", "parsedate_to_datetime")
    ELSE parsedate_datetime(int(f.yy), f.mm, int(f.dd), int(tm[1]), int(tm[2]),
                            int(IF Len(tm) = 3 THEN tm[3] ELSE <<"0">>),
                            parsedate_zone(f.tz, int(f.tz)))

\* tm.split(':'), or tm.split('.') for a time written with dots.
parsedate_split_time(tm) ==
    IF Len(split_sep(tm, ":")) = 1 /\ find(tm, ".") >= 0 THEN split_sep(tm, ".")
    ELSE split_sep(tm, ":")

\* The rest of _parsedate_tz once the year has changed places with the zone
\* where it did not start with a digit.
parsedate_clock(f) == parsedate_time(f, parsedate_split_time(drop_comma(f.tm)))

\* The rest of _parsedate_tz once the year has changed places with the time
\* where it held a colon.
parsedate_year(f) ==
    IF drop_comma(f.yy) = <<>> THEN Raise("ValueError", "parsedate_to_datetime")
    ELSE IF ~isdigit(drop_comma(f.yy)[1])
    THEN parsedate_clock([f EXCEPT !.yy = f.tz, !.tz = drop_comma(f.yy)])
    ELSE parsedate_clock([f EXCEPT !.yy = drop_comma(f.yy)])

\* The rest of _parsedate_tz once mm is the number of the month.
parsedate_day(f) ==
    IF find(f.yy, ":") > 0
    THEN parsedate_year([f EXCEPT !.dd = drop_comma(f.dd), !.yy = f.tm, !.tm = f.yy])
    ELSE parsedate_year([f EXCEPT !.dd = drop_comma(f.dd)])

\* The rest of _parsedate_tz once data holds five words: the month may come
\* before the day.
parsedate_five(dd, mm, yy, tm, tz) ==
    IF dd = <<>> \/ mm = <<>> \/ yy = <<>>
    THEN Raise("ValueError", "parsedate_to_datetime")
    ELSE IF month_number(mm) # 0
    THEN parsedate_day([dd |-> dd, mm |-> month_number(mm), yy |-> yy,
                        tm |-> tm, tz |-> tz])
    ELSE IF month_number(dd) # 0
    THEN parsedate_day([dd |-> mm, mm |-> month_number(dd), yy |-> yy,
                        tm |-> tm, tz |-> tz])
    ELSE Raise("ValueError", "parsedate_to_datetime")

\* Four words: the zone is cut from the end of the time, or is the empty
\* string.
parsedate_four(data) ==
    IF Len(data) # 4 THEN data
    ELSE LET s == data[4]
             i == IF find(s, "+") = -1 THEN find(s, "-") ELSE find(s, "+")
         IN  IF i > 0
             THEN SubSeq(data, 1, 3) \o <<slice(s, 0, i), slice(s, i, Len(s))>>
             ELSE Append(data, <<>>)

\* Three words: a date written dd-mm-yy is split into its three fields.
parsedate_three(data) ==
    IF Len(data) = 3 /\ Len(split_sep(data[1], "-")) = 3
    THEN split_sep(data[1], "-") \o Tail(data)
    ELSE data

\* The rest of _parsedate_tz once three or four words are made five: the
\* first five words are the fields.
parsedate_split(data) ==
    IF Len(data) < 5 THEN Raise("ValueError", "parsedate_to_datetime")
    ELSE parsedate_five(data[1], data[2], data[3], data[4], data[5])

\* The rest of _parsedate_tz once the day name is dropped.
parsedate_fields(data) == parsedate_split(parsedate_four(parsedate_three(data)))

\* _parsedate_tz skips a first word that ends in a comma or is a day name, and
\* the part of it up to its last comma otherwise.
parsedate_words(data) ==
    IF data = <<>> THEN Raise("ValueError", "parsedate_to_datetime")
    ELSE IF data[1][Len(data[1])] = ","
            \/ (Len(data[1]) = 1 /\ data[1][1] \in daynames)
    THEN parsedate_fields(Tail(data))
    ELSE IF rfind(data[1], ",") >= 0
    THEN parsedate_fields(<<slice(data[1], rfind(data[1], ",") + 1, Len(data[1]))>>
                              \o Tail(data))
    ELSE parsedate_fields(data)

\* utils.parsedate_to_datetime(data)
parsedate_to_datetime(data) == parsedate_words(split(data))

\* What the comparison of two datetimes compares: the instant of an aware
\* datetime, the wall-clock reading of a naive one, as a day number and the
\* seconds into that day.
datetime_instant(dt) ==
    LET s == (dt.hour * 60 + dt.minute) * 60 + dt.second - dt.utcoffset + 86400
    IN  [days    |-> ymd2ord(dt.year, dt.month, dt.day) - 1 + s \div 86400,
         seconds |-> s % 86400]

\* x >= y for two such readings.
instant_ge(x, y) ==
    x.days > y.days \/ (x.days = y.days /\ x.seconds >= y.seconds)

\* exit(code)
Exit(code) == [kind |-> "SystemExit", code |-> code]

\* The keys the sort computes, one per item from the i-th on, before it
\* compares any.
RECURSIVE sort_keys_from(_, _)
sort_keys_from(all_items, i) ==
    IF i > Len(all_items) THEN <<>>
    ELSE <<parsedate_to_datetime(all_items[i].pubDate)>>
             \o sort_keys_from(all_items, i + 1)

sort_keys(all_items) == sort_keys_from(all_items, 1)

\* Where the stable descending sort puts an element of key k among the ones
\* before it in the list: after every element whose key is not less than k.
insert_sorted(acc, elem) ==
    LET pos == Cardinality({j \in 1..Len(acc) : instant_ge(acc[j].key, elem.key)})
    IN  SubSeq(acc, 1, pos) \o <<elem>> \o SubSeq(acc, pos + 1, Len(acc))

\* The first i items, each with the reading its key compares by, sorted.
RECURSIVE sorted_upto(_, _, _)
sorted_upto(all_items, keys, i) ==
    IF i = 0 THEN <<>>
    ELSE insert_sorted(sorted_upto(all_items, keys, i - 1),
                       [key |-> datetime_instant(keys[i]), item |-> all_items[i]])

\* The items of a sorted list of keyed items, from the i-th on.
RECURSIVE items_of(_, _)
items_of(keyed, i) ==
    IF i > Len(keyed) THEN <<>>
    ELSE <<keyed[i].item>> \o items_of(keyed, i + 1)

\* sorted(all_items, key = ..., reverse = True) once the keys are computed:
\* the list, or what a key or a comparison raised.
sorted_with(all_items, keys) ==
    IF \E i \in 1..Len(keys) : IsRaise(keys[i])
    THEN Raise("ValueError", "parsedate_to_datetime")
    \* An aware datetime does not compare with a naive one.
    ELSE IF \E i, j \in 1..Len(keys) : keys[i].aware /\ ~keys[j].aware
    THEN Raise("TypeError", "sorted")
    ELSE [kind |-> "list",
          val  |-> items_of(sorted_upto(all_items, keys, Len(all_items)), 1)]

sorted_by_pubdate(all_items) == sorted_with(all_items, sort_keys(all_items))

\* The keys of a JSON object in the order json.dump(sort_keys=True) writes and
\* json.load reads them.
dict_keys(d) ==
    SelectSeq(<<"author", "description", "link", "pubDate", "title">>,
              LAMBDA k : k \in DOMAIN d)

\* The loop of append_item from its k-th key on.
RECURSIVE add_fields(_, _, _, _, _)
add_fields(h, item_elt, item_dict, keys, k) ==
    IF k > Len(keys) THEN h
    ELSE add_fields(add_elt(h, item_elt, keys[k], Some(item_dict[keys[k]]), Nothing),
                    item_elt, item_dict, keys, k + 1)

\* append_item(parent, item_dict) on heap h.
append_item(h, parent, item_dict) ==
    add_fields(add_elt(h, parent, "item", Nothing, Nothing), Len(h) + 1,
               item_dict, dict_keys(item_dict), 1)

\* for item in items: append_item(parent, item), from the i-th item on.  The
\* test on Len(h) changes nothing (the heap holds the root dict at least); it
\* has the heap of one iteration computed before the next is entered.
RECURSIVE append_items(_, _, _, _)
append_items(h, parent, items, i) ==
    IF i > Len(items) \/ Len(h) = 0 THEN h
    ELSE append_items(append_item(h, parent, items[i]), parent, items, i + 1)

\* all_items[:10]
most_recent(all_items) == slice(all_items, 0, 10)

\* The walk of make_rss_file over the items files found, in the order os.walk
\* yields their directories: all_items, or the exit at the first file check_file
\* has a message for.
RECURSIVE walk_items(_, _, _)
walk_items(walked, i, all_items) ==
    IF i > Len(walked) THEN [kind |-> "list", val |-> all_items]
    ELSE IF Len(check_file(ITEMS_FILENAME, walked[i])) > 0 THEN Exit(1)
    ELSE walk_items(walked, i + 1, all_items \o walked[i].data)

\* The tree of make_rss_file up to the channel's own fields: dict 1 is the rss
\* element and dict 2 the channel.
channel_tree(root_data) ==
    add_fields(add_elt(make_new_xml_tree("rss", Some(<< <<"version", "2.0">> >>)),
                       1, "channel", Nothing, Nothing),
               2, root_data, <<"title", "link", "description">>, 1)

\* The channel once pubDate and lastBuildDate are added, build_date being
\* utils.format_datetime(now.astimezone()).
dated_tree(h, all_items, build_date) ==
    add_elt(IF all_items # <<>>
            THEN add_elt(h, 2, "pubDate", Some(all_items[1].pubDate), Nothing)
            ELSE h,
            2, "lastBuildDate", Some(build_date), Nothing)

\* The end of make_rss_file: the tree is written to the feed file.
make_rss_written(tree, rss_filepath) ==
    [ret     |-> None,
     tree    |-> tree,
     written |-> Some([path |-> rss_filepath,
                       text |-> write_xml(tree, [type |-> "dict", id |-> 1],
                                          Nothing).out])]

\* What make_rss_file leaves when it ends before writing.
make_rss_ended(how) == [ret |-> how, tree |-> <<>>, written |-> Nothing]

\* The rest of make_rss_file once the items are sorted.
make_rss_tree(root_path, root_data, sorted_items, now0) ==
    IF sorted_items.kind # "list" THEN make_rss_ended(sorted_items)
    ELSE IF IsRaise(format_local(now0)) THEN make_rss_ended(format_local(now0))
    ELSE make_rss_written(append_items(dated_tree(channel_tree(root_data),
                                                  sorted_items.val,
                                                  format_local(now0).val),
                                       2, most_recent(sorted_items.val), 1),
                          root_path \o root_data.rssFilename)

\* The rest of make_rss_file once the walk has ended.
make_rss_sorted(found, walk, now0) ==
    IF walk.kind # "list" THEN make_rss_ended(walk)
    ELSE make_rss_tree(found.root_path, found.root_data,
                       sorted_by_pubdate(walk.val), now0)

\* make_rss_file() run in directory cwd, not as a dry run; walked holds the
\* items files below the publication root.  ret is None, the exit or what was
\* raised; tree is the tree handed to write_xml and written the feed file,
\* when it got that far.
make_rss_file(cwd, now0, rootf, walked) ==
    IF find_root_json_filepath(cwd, rootf).kind = "ERROR"
    THEN make_rss_ended(Exit(1))
    ELSE IF Len(check_file(ROOT_FILENAME, rootf[1])) > 0
    THEN make_rss_ended(Exit(1))
    ELSE make_rss_sorted(find_root_data(cwd, rootf),
                         walk_items(walked, 1, <<>>), now0)

-----------------------------------------------------------------------------
(* Driver of the base codec: tobase(n, b), then frombase of its result.    *)

Bases == 1..11

baseIdle ==
    /\ n = 0
    /\ b = 0
    /\ numeral = None
    /\ back = None

dateIdle ==
    /\ time = None
    /\ do_use_digital_format = FALSE
    /\ sevendate_str = None
    /\ parsed = None

xmlIdle ==
    /\ nodes = <<>>
    /\ file = Nothing
    /\ ret = None

postIdle ==
    /\ items_file = Nothing
    /\ root_file = Nothing
    /\ calls = 0
    /\ post_ret = None
    /\ top_items_file = Nothing

InitBase ==
    /\ pc = "base"
    /\ n \in 0..MaxN
    /\ b \in Bases
    /\ numeral = None
    /\ back = None
    /\ dateIdle
    /\ xmlIdle
    /\ postIdle

CallTobase ==
    /\ pc = "base"
    /\ numeral' = tobase(n, b)
    /\ pc' = "encoded"
    /\ UNCHANGED <<n, b, back, dateVars, xmlVars, postVars>>

CallFrombase ==
    /\ pc = "encoded"
    /\ numeral.kind = "str"
    /\ back' = frombase(numeral.val, b)
    /\ pc' = "decoded"
    /\ UNCHANGED <<n, b, numeral, dateVars, xmlVars, postVars>>

NextBase == CallTobase \/ CallFrombase

SpecBase == InitBase /\ [][NextBase]_vars

-----------------------------------------------------------------------------
(* Driver of the date codec: to_string(time, flag), then to_datetime of    *)
(* its result.                                                             *)

EdgeYears == {1, 4, 100, 400, 999, 1000, 1900, 2100, 9999}

\* The days of the given years, each as the datetime of its midnight.
Dates(years) ==
    {dt \in [kind : {"datetime"}, year : years, month : 1..12, day : 1..31,
             hour : {0}, minute : {0}, second : {0}] :
        dt.day <= days_in_month(dt.year, dt.month)}

\* The readings of datetime.now() that to_string(None, ...) is checked with:
\* every day of MaxYear, at 14:23:11.
NowDates ==
    {[dt EXCEPT !.hour = 14, !.minute = 23, !.second = 11] : dt \in Dates({MaxYear})}

InitDate ==
    /\ pc = "date"
    /\ time \in Dates((MinYear..MaxYear) \cup EdgeYears) \cup {None}
    /\ do_use_digital_format \in BOOLEAN
    /\ sevendate_str = None
    /\ parsed = None
    /\ baseIdle
    /\ xmlIdle
    /\ postIdle

CallToString ==
    /\ pc = "date"
    /\ \E now0 \in (IF time = None THEN NowDates ELSE {None}) :
           sevendate_str' = to_string(time, do_use_digital_format, now0)
    /\ pc' = "formatted"
    /\ UNCHANGED <<time, do_use_digital_format, parsed, baseVars, xmlVars, postVars>>

CallToDatetime ==
    /\ pc = "formatted"
    /\ parsed' = to_datetime(sevendate_str)
    /\ pc' = "parsed"
    /\ UNCHANGED <<time, do_use_digital_format, sevendate_str, baseVars, xmlVars, postVars>>

NextDate == CallToString \/ CallToDatetime

SpecDate == InitDate /\ [][NextDate]_vars

-----------------------------------------------------------------------------
(* Driver of the parsers on arbitrary text: to_datetime(s), and            *)
(* frombase(s, b) for every base.                                          *)

Alphabet == {"0", "1", "6", "7", "9", ":", ".", "-", " "}

DayAlphabet == {"0", "1", "6", "7", " "}

YearStrs == {<<"2", "0", "2", "3">>, <<"2", "0", "2", "4">>}

StrsOver(chars, maxlen) == UNION {[1..k -> chars] : k \in 0..maxlen}

DayStrs == StrsOver(DayAlphabet, MaxDayLen)

\* YYYY, then nothing or a separator and a day field.
DigitalInputs ==
    {y \o tail : y \in YearStrs,
                 tail \in {<<>>} \cup {<<sep>> \o d : sep \in Alphabet, d \in DayStrs}}

\* A day field, the dot, a year.
DottedInputs == {d \o <<".">> \o y : d \in DayStrs, y \in YearStrs}

Inputs == StrsOver(Alphabet, MaxLen) \cup DigitalInputs \cup DottedInputs

InitParse ==
    /\ pc = "text"
    /\ sevendate_str \in Inputs
    /\ time = None
    /\ do_use_digital_format = FALSE
    /\ parsed = None
    /\ baseIdle
    /\ xmlIdle
    /\ postIdle

ParseToDatetime ==
    /\ pc = "text"
    /\ parsed' = to_datetime(sevendate_str)
    /\ pc' = "parsed"
    /\ UNCHANGED <<time, do_use_digital_format, sevendate_str, baseVars, xmlVars, postVars>>

ParseFrombase ==
    /\ pc = "text"
    /\ \E b0 \in Bases :
           /\ b' = b0
           /\ back' = frombase(sevendate_str, b0)
    /\ pc' = "decoded"
    /\ UNCHANGED <<n, numeral, dateVars, xmlVars, postVars>>

NextParse == ParseToDatetime \/ ParseFrombase

SpecParse == InitParse /\ [][NextParse]_vars

-----------------------------------------------------------------------------
(* The tree builder: make_new_xml_tree, then add_elt on any list handed    *)
(* out so far, then write_xml of the tree to a file name.                  *)

RootTags == {"rss"}

Tags == {"a", "b"}

TextArgs == {Nothing, Some(""), Some("T")}

RootAttribArgs ==
    {Nothing, Some(<<>>), Some(<< <<"version", "2.0">> >>),
     Some(<< <<"version", "2.0">>, <<"k", "v">> >>)}

AttribArgs == {Nothing, Some(<<>>), Some(<< <<"k", "v">> >>)}

InitXml ==
    /\ pc = "new"
    /\ xmlIdle
    /\ baseIdle
    /\ dateIdle
    /\ postIdle

MakeNewXmlTree ==
    /\ pc = "new"
    /\ \E root_tag \in RootTags, attribs \in RootAttribArgs :
           nodes' = make_new_xml_tree(root_tag, attribs)
    /\ pc' = "build"
    /\ UNCHANGED <<file, ret, baseVars, dateVars, postVars>>

AddElt ==
    /\ pc = "build"
    /\ Len(nodes) < MaxNodes
    /\ \E parent \in 1..Len(nodes), tag \in Tags, text \in TextArgs,
          attribs \in AttribArgs :
           nodes' = add_elt(nodes, parent, tag, text, attribs)
    /\ UNCHANGED <<pc, file, ret, baseVars, dateVars, postVars>>

WriteXml ==
    /\ pc = "build"
    /\ LET call == write_xml(nodes, [type |-> "dict", id |-> 1], Nothing)
       IN  /\ file' = Some(call.out)
           /\ ret' = [kind |-> "bool", val |-> call.post]
    /\ pc' = "written"
    /\ UNCHANGED <<nodes, baseVars, dateVars, postVars>>

NextXml == MakeNewXmlTree \/ AddElt \/ WriteXml

SpecXml == InitXml /\ [][NextXml]_vars

-----------------------------------------------------------------------------
(* The post workflow driven: rss.py root in the site directory, rss.py     *)
(* post in the post directory, and the user editing the two JSON files in  *)
(* between.                                                                *)

\* The command lines rss.py post is run with: alone, with a file name, with
\* -7 and a 7date (the flag is then the file name), with both, with a 7date
\* that does not parse, with the 7date of 1 January of year 1, with an empty
\* 7date, and with the flag as the last word.
PostArgvs ==
    {<<<<"rss.py">>, <<"post">>>>,
     <<<<"rss.py">>, <<"post">>, <<"post.html">>>>,
     <<<<"rss.py">>, <<"post">>, <<"-7">>, <<"1", "0", ".", "2", "0", "2", "4">>>>,
     <<<<"rss.py">>, <<"post">>, <<"post.html">>, <<"-7">>,
       <<"1", "0", ".", "2", "0", "2", "4">>>>,
     <<<<"rss.py">>, <<"post">>, <<"-7">>, <<"8", ".", "2", "0", "2", "4">>>>,
     <<<<"rss.py">>, <<"post">>, <<"-7">>, <<"0", ".", "1">>>>,
     <<<<"rss.py">>, <<"post">>, <<"post.html">>, <<"-7">>, <<>>>>,
     <<<<"rss.py">>, <<"post">>, <<"post.html">>, <<"-7">>>>}

\* What datetime.now() may read during a run: a time of day of one day and
\* the midnight that ends it.  Two runs may read the same second.
NowReadings ==
    {[kind |-> "datetime", year |-> MaxYear, month |-> 12, day |-> 30,
      hour |-> 14, minute |-> 23, second |-> 11],
     [kind |-> "datetime", year |-> MaxYear, month |-> 12, day |-> 31,
      hour |-> 0, minute |-> 0, second |-> 0]}

\* The fields a user is taken to delete from an item.
DroppedFields == {"author"}

InitPost ==
    /\ pc = "shell"
    /\ postIdle
    /\ baseIdle
    /\ dateIdle
    /\ xmlIdle

MakeRootJsonFile ==
    /\ pc = "shell"
    /\ root_file' = make_root_json_file(root_file)
    /\ UNCHANGED <<pc, items_file, calls, post_ret, top_items_file, baseVars, dateVars, xmlVars>>

AddNewPost ==
    /\ pc = "shell"
    /\ calls < MaxPosts
    /\ \E argv \in PostArgvs, now0 \in NowReadings :
           LET call == main_post(argv, now0, PostDir, items_file, root_file)
           IN  /\ items_file' = call.items
               /\ post_ret' = call.ret
    /\ calls' = calls + 1
    /\ UNCHANGED <<pc, root_file, top_items_file, baseVars, dateVars, xmlVars>>

\* The user fills in every field of item i that still holds its default.
EditItem ==
    /\ pc = "shell"
    /\ items_file # Nothing
    /\ items_file[1].parses
    /\ \E i \in 1..Len(items_file[1].data) :
           LET item == items_file[1].data[i]
               edited == [f \in DOMAIN item |->
                             IF item[f] = DEFAULT_ITEM_VALUES[f] THEN <<"my ", f>>
                             ELSE item[f]]
           IN  /\ edited # item
               /\ items_file' = Some([items_file[1] EXCEPT !.data[i] = edited])
    /\ UNCHANGED <<pc, root_file, calls, post_ret, top_items_file, baseVars, dateVars, xmlVars>>

\* add_img.py rss_items.json, run in the post directory; a run that raises
\* leaves the file as it was.
AddImg ==
    /\ pc = "shell"
    /\ add_img(items_file).ret = None
    /\ items_file' = add_img(items_file).items
    /\ items_file' # items_file
    /\ UNCHANGED <<pc, root_file, calls, post_ret, top_items_file, baseVars, dateVars, xmlVars>>

\* The user deletes a field of item i.
RemoveField ==
    /\ pc = "shell"
    /\ items_file # Nothing
    /\ items_file[1].parses
    /\ \E i \in 1..Len(items_file[1].data), field \in DroppedFields :
           LET item == items_file[1].data[i]
           IN  /\ field \in DOMAIN item
               /\ items_file' = Some([items_file[1] EXCEPT !.data[i] =
                                         [f \in DOMAIN item \ {field} |-> item[f]]])
    /\ UNCHANGED <<pc, root_file, calls, post_ret, top_items_file, baseVars, dateVars, xmlVars>>

\* The user leaves the items file with text that is not JSON.
CorruptItems ==
    /\ pc = "shell"
    /\ items_file # Nothing
    /\ items_file[1].parses
    /\ items_file' = Some([parses |-> FALSE, data |-> <<>>])
    /\ UNCHANGED <<pc, root_file, calls, post_ret, top_items_file, baseVars, dateVars, xmlVars>>

\* The user sets defaultAuthor in the root file.
SetDefaultAuthor ==
    /\ pc = "shell"
    /\ root_file # Nothing
    /\ "defaultAuthor" \notin DOMAIN root_file[1]
    /\ root_file' = Some(root_file[1] @@ ("defaultAuthor" :> <<"me">>))
    /\ UNCHANGED <<pc, items_file, calls, post_ret, top_items_file, baseVars, dateVars, xmlVars>>

\* The user points rootDir of the root file at a publication directory.
SetRootDir ==
    /\ pc = "shell"
    /\ root_file # Nothing
    /\ \E dir \in {<<>>, <<"public">>} :
           /\ dir # root_file[1].rootDir
           /\ root_file' = Some([root_file[1] EXCEPT !.rootDir = dir])
    /\ UNCHANGED <<pc, items_file, calls, post_ret, top_items_file, baseVars, dateVars, xmlVars>>

NextPost ==
    \/ MakeRootJsonFile
    \/ AddNewPost
    \/ EditItem
    \/ AddImg
    \/ RemoveField
    \/ CorruptItems
    \/ SetDefaultAuthor
    \/ SetRootDir

SpecPost == InitPost /\ [][NextPost]_vars

-----------------------------------------------------------------------------
(* The feed driven: rss.py root and the user's edit of the root file (pc   *)
(* "site"), then rss.py post in the site directory or the post directory   *)
(* and the user's edit of the new template, any number of times (pc        *)
(* "posting"); rss.py make at any point of the two.                        *)

FeedDirs == {SiteDir, PostDir}

\* The 7dates given to rss.py post -7 in the post directory: 9 Jan 2024, and
\* 1 Jan of the year 50, which get_date_str writes with the year field 0050.
FeedSevendates ==
    {<<"1", "1", ".", "2", "0", "2", "4">>, <<"0", ".", "5", "0">>}

\* The command lines rss.py post is run with in directory dir.
FeedArgvs(dir) ==
    IF dir = SiteDir THEN {<<<<"rss.py">>, <<"post">>>>}
    ELSE {<<<<"rss.py">>, <<"post">>, <<"-7">>, sevendate>> :
              sevendate \in FeedSevendates}

\* What datetime.now() reads while the feed is built up and made.
FeedNowReadings ==
    {[kind |-> "datetime", year |-> MaxYear, month |-> 12, day |-> 30,
      hour |-> 14, minute |-> 23, second |-> 11]}

\* The pubDate the user gives a post of the site directory: dates written in
\* other zones, the first the same instant as midnight of 9 Jan 2024 UTC, the
\* second half an hour before it.
TopPubDates ==
    {<<"Mon", ",", " ", "0", "8", " ", "Jan", " ", "2", "0", "2", "4", " ",
       "1", "9", ":", "0", "0", ":", "0", "0", " ", "-", "0", "5", "0", "0">>,
     <<"Tue", ",", " ", "0", "9", " ", "Jan", " ", "2", "0", "2", "4", " ",
       "0", "0", ":", "3", "0", ":", "0", "0", " ", "+", "0", "1", "0", "0">>}

\* rss_items.json of directory dir.
items_at(dir, top, post) == IF dir = SiteDir THEN top ELSE post

\* How many posts the items file f holds.
posts_in(f) == IF f = Nothing THEN 0 ELSE Len(f[1].data)

\* The items files os.walk meets from the site directory down, in its order.
walked_files(top, post) ==
    (IF top = Nothing THEN <<>> ELSE <<top[1]>>)
        \o (IF post = Nothing THEN <<>> ELSE <<post[1]>>)

InitFeed ==
    /\ pc = "site"
    /\ postIdle
    /\ baseIdle
    /\ dateIdle
    /\ xmlIdle

\* rss.py root, run in the site directory.
FeedMakeRoot ==
    /\ pc = "site"
    /\ root_file' = make_root_json_file(root_file)
    /\ UNCHANGED <<pc, items_file, calls, post_ret, top_items_file, baseVars, dateVars, xmlVars>>

\* The user fills in the fields of the root file that hold their default.
FeedEditRoot ==
    /\ pc = "site"
    /\ root_file # Nothing
    /\ LET root == root_file[1]
           edited == [f \in DOMAIN root |->
                         IF f \in DOMAIN DEFAULT_ROOT_VALUES
                                /\ root[f] = DEFAULT_ROOT_VALUES[f]
                         THEN <<"my ", f>> ELSE root[f]]
       IN  /\ edited # root
           /\ root_file' = Some(edited)
    /\ pc' = "posting"
    /\ UNCHANGED <<items_file, calls, post_ret, top_items_file, baseVars, dateVars, xmlVars>>

\* rss.py post in the site directory, and rss.py post -7 <7date> in the post
\* directory.
FeedAddNewPost ==
    /\ pc = "posting"
    /\ \E dir \in FeedDirs, now0 \in FeedNowReadings :
       \E argv \in FeedArgvs(dir) :
           /\ posts_in(items_at(dir, top_items_file, items_file))
                  < (IF dir = SiteDir THEN MaxTopPosts ELSE MaxFeedPosts)
           /\ LET call == main_post(argv, now0, dir,
                                    items_at(dir, top_items_file, items_file),
                                    root_file)
              IN  /\ post_ret' = call.ret
                  /\ top_items_file' =
                         IF dir = SiteDir THEN call.items ELSE top_items_file
                  /\ items_file' =
                         IF dir = PostDir THEN call.items ELSE items_file
    /\ UNCHANGED <<pc, root_file, calls, baseVars, dateVars, xmlVars>>

\* The user fills in the template that rss.py post left at the end of an items
\* file, numbering the post; in the site directory the user sets the date of
\* the post as well.
FeedEditItem ==
    /\ pc = "posting"
    /\ \E dir \in FeedDirs :
           LET f == items_at(dir, top_items_file, items_file)
           IN  /\ f # Nothing
               /\ f[1].parses
               /\ f[1].data # <<>>
               /\ \E pub_date \in (IF dir = SiteDir THEN TopPubDates
                                   ELSE {f[1].data[Len(f[1].data)].pubDate}) :
                      LET item == f[1].data[Len(f[1].data)]
                          edited == [k \in DOMAIN item |->
                                        IF k = "pubDate" THEN pub_date
                                        ELSE IF item[k] = DEFAULT_ITEM_VALUES[k]
                                        THEN <<"my ", k>> \o str(Len(f[1].data))
                                        ELSE item[k]]
                          g == Some([f[1] EXCEPT !.data[Len(f[1].data)] = edited])
                      IN  /\ \E k \in DOMAIN item : item[k] = DEFAULT_ITEM_VALUES[k]
                          /\ top_items_file' = IF dir = SiteDir THEN g ELSE top_items_file
                          /\ items_file' = IF dir = PostDir THEN g ELSE items_file
    /\ UNCHANGED <<pc, root_file, calls, post_ret, baseVars, dateVars, xmlVars>>

\* rss.py make, run in the post directory.
MakeRssFile ==
    /\ pc \in {"site", "posting"}
    /\ \E now0 \in FeedNowReadings :
           LET call == make_rss_file(PostDir, now0, root_file,
                                     walked_files(top_items_file, items_file))
           IN  /\ nodes' = call.tree
               /\ file' = call.written
               /\ ret' = call.ret
    /\ pc' = "made"
    /\ UNCHANGED <<baseVars, dateVars, postVars>>

NextFeed ==
    \/ FeedMakeRoot
    \/ FeedEditRoot
    \/ FeedAddNewPost
    \/ FeedEditItem
    \/ MakeRssFile

SpecFeed == InitFeed /\ [][NextFeed]_vars

-----------------------------------------------------------------------------
(* The whole program: each component from its own initial state.           *)

Init == InitBase \/ InitDate \/ InitParse \/ InitXml \/ InitPost \/ InitFeed

Next == NextBase \/ NextDate \/ NextParse \/ NextXml \/ NextPost \/ NextFeed

Spec == Init /\ [][Next]_vars

-----------------------------------------------------------------------------
(* The properties checked, and what they are stated with.                  *)

\* The value of a numeral read in a base, most significant digit first.
DigitVal(char) == CHOOSE k \in 0..9 : DigitChars[k + 1] = char

RECURSIVE PosValue(_, _)
PosValue(digits, base) ==
    IF digits = <<>> THEN 0
    ELSE PosValue(SubSeq(digits, 1, Len(digits) - 1), base) * base
             + DigitVal(digits[Len(digits)])

DigitsBelow(base) == {DigitChars[k + 1] : k \in 0..(base - 1)}

AllIn(s, chars) == \A i \in 1..Len(s) : s[i] \in chars

\* The number of days of dt's year that come before dt.
DayIndex(dt) ==
    Cardinality({d \in Dates({dt.year}) :
        d.month < dt.month \/ (d.month = dt.month /\ d.day < dt.day)})

LeapYear(y) == (y % 4 = 0 /\ y % 100 # 0) \/ y % 400 = 0

\* The day field of a string to_string has written.
WrittenDayField(s, digital) ==
    IF digital THEN SubSeq(s, find(s, "-") + 2, Len(s))
    ELSE SubSeq(s, 1, find(s, "."))

\* C1: for every day d of the years MinYear..MaxYear (2000-2024) and either
\* value of do_use_digital_format, to_datetime(to_string(d, flag)) is d.
C1_DateRoundTrip ==
    (pc = "parsed" /\ time # None /\ time.year \in MinYear..MaxYear)
        => parsed = time

C1_Witness ==
    /\ pc = "parsed"
    /\ do_use_digital_format
    /\ time = [kind |-> "datetime", year |-> 2024, month |-> 2, day |-> 29,
               hour |-> 0, minute |-> 0, second |-> 0]
    /\ sevendate_str = <<"2", "0", "2", "4", "-", "0", "1", "1", "3">>
    /\ parsed = time

\* C2: for every n in 0..MaxN (1000) and base b in 2..9, frombase(tobase(n, b), b)
\* is n; tobase(n, b) is made of the digits 0..b-1 only, has no leading zero
\* unless n = 0, and is exactly "0" for n = 0.
C2_BaseRoundTrip ==
    (pc = "decoded" /\ numeral # None /\ b \in 2..9) =>
        /\ back = [kind |-> "int", val |-> n]
        /\ numeral.kind = "str"
        /\ Len(numeral.val) >= 1
        /\ AllIn(numeral.val, DigitsBelow(b))
        /\ (n # 0 => numeral.val[1] # "0")
        /\ (n = 0 => numeral.val = <<"0">>)

C2_Witness ==
    /\ pc = "decoded"
    /\ n = 49
    /\ b = 7
    /\ numeral = [kind |-> "str", val |-> <<"1", "0", "0">>]
    /\ back = [kind |-> "int", val |-> 49]

\* Well-formed: no dict has both text and a non-empty list, and a text is
\* not empty.
WellFormedTree(h) ==
    \A i \in 1..Len(h) :
        /\ ~(h[i].has_text /\ h[i].value # <<>>)
        /\ h[i].has_text => h[i].text # ""

Spaces(k) == [i \in 1..k |-> " "]

RECURSIVE AttribsText(_)
AttribsText(attribs) ==
    IF attribs = <<>> THEN <<>>
    ELSE <<" ", attribs[1][1], "=", "\"", attribs[1][2], "\"">>
             \o AttribsText(Tail(attribs))

OpeningTag(obj) == <<"<", obj.tag>> \o AttribsText(obj.attribs) \o <<">">>

ClosingTag(obj) == <<"</", obj.tag, ">">>

\* The text of the dict id at nesting depth k, as C3 describes it.
RECURSIVE Rendered(_, _, _)
Rendered(h, id, k) ==
    LET obj == h[id]
        RECURSIVE Children(_)
        Children(i) ==
            IF i > Len(obj.value) THEN <<>>
            ELSE Rendered(h, obj.value[i], k + 1) \o Children(i + 1)
    IN  IF obj.has_text
        THEN Spaces(2 * k) \o OpeningTag(obj) \o <<obj.text>> \o ClosingTag(obj)
                 \o <<"\n">>
        ELSE IF obj.value # <<>>
        THEN Spaces(2 * k) \o OpeningTag(obj) \o <<"\n">> \o Children(1)
                 \o Spaces(2 * k) \o ClosingTag(obj) \o <<"\n">>
        ELSE Spaces(2 * k) \o OpeningTag(obj) \o ClosingTag(obj) \o <<"\n">>

\* C3: for a well-formed tree write_xml writes the declaration line once, then
\* every dict at depth k as 2*k spaces and its opening tag, followed by its text
\* and closing tag on the same line, or by a newline, its children in insertion
\* order at depth k+1, 2*k spaces and the closing tag, or (with neither) by the
\* closing tag at once; each closing tag ends its line.
C3_SerializerShape ==
    (pc = "written" /\ WellFormedTree(nodes)) =>
        file = Some(<<"<?xml version='1.0' encoding='utf-8'?>", "\n">>
                        \o Rendered(nodes, 1, 0))

C3_Witness ==
    /\ pc = "written"
    /\ WellFormedTree(nodes)
    /\ Len(nodes) = 3
    /\ nodes[1].value = <<2>>
    /\ nodes[2].value = <<3>>
    /\ file = Some(<<"<?xml version='1.0' encoding='utf-8'?>", "\n",
                     "<", "rss", ">", "\n",
                     " ", " ", "<", "a", ">", "\n",
                     " ", " ", " ", " ", "<", "b", ">", "T", "</", "b", ">", "\n",
                     " ", " ", "</", "a", ">", "\n",
                     "</", "rss", ">", "\n">>)

\* C4: when a dict carries both a text and a non-empty list, write_xml raises
\* an error instead of writing output that leaves the text or the children out.
C4_MalformedRaises ==
    (pc = "written" /\ \E i \in 1..Len(nodes) :
                           nodes[i].has_text /\ nodes[i].value # <<>>)
        => IsRaise(ret)

\* The two grammars of a 7date string, surrounding whitespace set aside:
\* D+.Y+ with base-7 digits D, and YYYY-D+.
MatchesDotted(s) ==
    LET dot == find(s, ".")
    IN  /\ dot >= 1
        /\ dot + 1 < Len(s)
        /\ AllIn(SubSeq(s, 1, dot), DigitsBelow(7))
        /\ AllIn(SubSeq(s, dot + 2, Len(s)), DigitsBelow(10))

MatchesDigital(s) ==
    /\ Len(s) >= 6
    /\ AllIn(SubSeq(s, 1, 4), DigitsBelow(10))
    /\ s[5] = "-"
    /\ AllIn(SubSeq(s, 6, Len(s)), DigitsBelow(7))

MatchesGrammar(s) == MatchesDotted(strip(s)) \/ MatchesDigital(strip(s))

\* C5: to_datetime raises, and returns no date, for every input that matches
\* neither grammar, such as "2024", "2024-" and ".2024".
C5_MalformedRejected ==
    (pc = "parsed" /\ time = None /\ ~MatchesGrammar(sevendate_str))
        => IsRaise(parsed)

\* C6: for every base b with 1 < b <= 10 and non-empty s, frombase(s, b) raises
\* its invalid-digit error exactly when some character of s is not one of the
\* digits 0..b-1; and to_datetime raises that error whenever the day field of
\* its input holds a character that is not a base-7 digit.
C6_InvalidDigit ==
    /\ (pc = "decoded" /\ numeral = None /\ b \in 2..10 /\ sevendate_str # <<>>)
           => (back = Raise("ValueError", "frombase")
                   <=> ~AllIn(sevendate_str, DigitsBelow(b)))
    /\ (pc = "parsed" /\ time = None /\ ~AllIn(day_str(sevendate_str), DigitsBelow(7)))
           => parsed = Raise("ValueError", "frombase")

C6_Witness ==
    /\ pc = "decoded"
    /\ sevendate_str = <<"9">>
    /\ b = 7
    /\ back = Raise("ValueError", "frombase")

\* C7: the day field to_string writes is the base-7 numeral of the 0-indexed day
\* of the year: 0 on January 1 ("0.YYYY", "YYYY-0000"), 364 on December 31 of a
\* non-leap year and 365 on December 31 of a leap year.
C7_DayFieldIsDayOfYear ==
    (pc \in {"formatted", "parsed"} /\ time # None) =>
        LET field == WrittenDayField(sevendate_str, do_use_digital_format)
        IN  /\ Len(field) >= 1
            /\ AllIn(field, DigitsBelow(7))
            /\ PosValue(field, 7) = DayIndex(time)
            /\ (time.month = 1 /\ time.day = 1) =>
                   field = IF do_use_digital_format THEN <<"0", "0", "0", "0">>
                           ELSE <<"0">>
            /\ (time.month = 12 /\ time.day = 31) =>
                   PosValue(field, 7) = IF LeapYear(time.year) THEN 365 ELSE 364

C7_Witness ==
    /\ pc = "formatted"
    /\ ~do_use_digital_format
    /\ time = [kind |-> "datetime", year |-> 2024, month |-> 12, day |-> 31,
               hour |-> 0, minute |-> 0, second |-> 0]
    /\ sevendate_str = <<"1", "0", "3", "1", ".", "2", "0", "2", "4">>

\* C8: the digital output of to_string is the decimal year, one '-', and a day
\* field of exactly 4 characters: the base-7 day of the year left-padded with '0'.
C8_DigitalWidth ==
    (pc \in {"formatted", "parsed"} /\ time # None /\ do_use_digital_format) =>
        LET s     == sevendate_str
            ylen  == Len(s) - 5
            year  == SubSeq(s, 1, ylen)
            field == SubSeq(s, ylen + 2, Len(s))
        IN  /\ ylen >= 1
            /\ AllIn(year, DigitsBelow(10))
            /\ year[1] # "0"
            /\ PosValue(year, 10) = time.year
            /\ s[ylen + 1] = "-"
            /\ Len(field) = 4
            /\ AllIn(field, DigitsBelow(7))
            /\ PosValue(field, 7) = DayIndex(time)

C8_Witness ==
    /\ pc = "formatted"
    /\ do_use_digital_format
    /\ time = [kind |-> "datetime", year |-> 999, month |-> 1, day |-> 8,
               hour |-> 0, minute |-> 0, second |-> 0]
    /\ sevendate_str = <<"9", "9", "9", "-", "0", "0", "1", "0">>

\* C9: a date that to_datetime returns lies in the year the string's year field
\* gives, and its 0-indexed day of the year is the base-7 value of the day field.
C9_DateWithinYear ==
    (pc = "parsed" /\ time = None /\ parsed.kind = "datetime") =>
        /\ parsed.year = int(year_str(sevendate_str)).val
        /\ DayIndex(parsed) = PosValue(day_str(sevendate_str), 7)

\* C10: when rss_items.json exists and check_file has a message for it,
\* add_new_post adds no post and leaves the file as it was; in every other case
\* the file then holds the previous items in their order and one new item.
\* Stated of the calls that return: a call that raises is not held to it.
C10_AddNewPostFrame ==
    [][(calls' = calls + 1 /\ post_ret' = None) =>
          IF items_file # Nothing /\ Len(check_file(ITEMS_FILENAME, items_file[1])) > 0
          THEN items_file' = items_file
          ELSE LET previous == IF items_file = Nothing THEN <<>>
                               ELSE items_file[1].data
               IN  /\ items_file' # Nothing
                   /\ items_file'[1].parses
                   /\ Len(items_file'[1].data) = Len(previous) + 1
                   /\ SubSeq(items_file'[1].data, 1, Len(previous)) = previous
      ]_vars


\* The items of the items files below the publication root, in the order the
\* walk meets them.
Collected ==
    (IF top_items_file = Nothing THEN <<>> ELSE top_items_file[1].data)
        \o (IF items_file = Nothing THEN <<>> ELSE items_file[1].data)

\* The children of the channel (dict 2 of the feed's tree) that carry the tag.
ChannelChildren(tag) ==
    SelectSeq(nodes[2].value, LAMBDA id : nodes[id].tag = tag)

\* The item an item element stands for: its children's texts by their tags.
EmittedItem(id) ==
    [k \in {nodes[c].tag : c \in {nodes[id].value[i] : i \in DOMAIN nodes[id].value}} |->
        nodes[CHOOSE c \in {nodes[id].value[i] : i \in DOMAIN nodes[id].value} :
                  nodes[c].tag = k].text]

RECURSIVE EmittedItems(_)
EmittedItems(ids) ==
    IF ids = <<>> THEN <<>>
    ELSE <<EmittedItem(Head(ids))>> \o EmittedItems(Tail(ids))

\* The minute of the proleptic Gregorian calendar, in UTC, that a pubDate of
\* the form "Www, DD Mon YYYY HH:MM:SS +ZZZZ" names, and its seconds.
PubMinute(p) ==
    LET two(i) == DigitVal(p[i]) * 10 + DigitVal(p[i + 1])
        year   == two(9) * 100 + two(11)
        month  == CHOOSE m \in 1..12 :
                      (<<"Jan", "Feb", "Mar", "Apr", "May", "Jun",
                         "Jul", "Aug", "Sep", "Oct", "Nov", "Dec">>)[m] = p[7]
        before == (<<0, 31, 59, 90, 120, 151, 181, 212, 243, 273, 304, 334>>)[month]
                      + (IF month > 2 /\ LeapYear(year) THEN 1 ELSE 0)
        days   == 365 * (year - 1) + (year - 1) \div 4 - (year - 1) \div 100
                      + (year - 1) \div 400 + before + two(4)
        zone   == (IF p[23] = "-" THEN -1 ELSE 1) * (two(24) * 60 + two(26))
    IN  days * 1440 + two(14) * 60 + two(17) - zone

PubSecond(p) == DigitVal(p[20]) * 10 + DigitVal(p[21])

\* pubDate p names an instant not before the one q names.
NotBefore(p, q) ==
    PubMinute(p) > PubMinute(q)
        \/ (PubMinute(p) = PubMinute(q) /\ PubSecond(p) >= PubSecond(q))

Occurrences(seq, v) == Cardinality({i \in DOMAIN seq : seq[i] = v})

\* C11: when make_rss_file writes the feed, the channel holds at most 10 item
\* elements; they are items of the collected ones, as many as there are up to
\* 10, and every collected item later than one of them is among them; they come
\* in non-increasing order of the instants their pubDates name; and the channel
\* has a pubDate element exactly when an item was collected, which then reads as
\* the pubDate of the first item element.  The file written is the rendering of
\* that tree.
C11_FeedHoldsLatestItems ==
    (pc = "made" /\ ret = None) =>
        LET emitted  == EmittedItems(ChannelChildren("item"))
            pub_elts == ChannelChildren("pubDate")
        IN  /\ Len(emitted) <= 10
            /\ Len(emitted) = IF Len(Collected) < 10 THEN Len(Collected) ELSE 10
            /\ \A i \in DOMAIN emitted :
                   Occurrences(emitted, emitted[i]) <= Occurrences(Collected, emitted[i])
            /\ \A j \in DOMAIN Collected :
                   (\E i \in DOMAIN emitted :
                        ~NotBefore(emitted[i].pubDate, Collected[j].pubDate))
                   => Occurrences(emitted, Collected[j])
                          = Occurrences(Collected, Collected[j])
            /\ \A i \in 1..(Len(emitted) - 1) :
                   NotBefore(emitted[i].pubDate, emitted[i + 1].pubDate)
            /\ Len(pub_elts) = IF Collected = <<>> THEN 0 ELSE 1
            /\ Collected # <<>> => nodes[pub_elts[1]].text = emitted[1].pubDate
            /\ file # Nothing
            /\ file[1].text = <<"<?xml version='1.0' encoding='utf-8'?>", "\n">>
                                  \o Rendered(nodes, 1, 0)

=============================================================================
